---- MODULE Spec2Model ----
(***************************************************************************)
(* Type-safe messaging: Receiver / Router (src/receiver.ts), Sender        *)
(* (src/sender.ts) and ReceiverWithContext (src/receiverWithContext.ts).   *)
(*                                                                         *)
(* JavaScript values are records tagged by kind.  A user function (a       *)
(* handler, a transport adapter) is opaque to the library, so what it      *)
(* produces for an input is the term naming the function and the input;    *)
(* two terms are equal exactly when function and inputs are.               *)
(***************************************************************************)
EXTENDS Integers, Sequences, FiniteSets, Bags, TLC

VARIABLES
    routes,      \* Receiver.routes: the Map key -> handler
    routers,     \* the Router objects handed out by Receiver.route
    adapter,     \* Sender.sender: the transport adapter given to the constructor
    last,        \* the most recent call on the objects and everything it did
    ctxRoutes,   \* ReceiverWithContext.routes
    ctxRouters,  \* the keys of the RouterWithContext objects handed out
    calls,       \* the receive(ctx, key, args) calls whose handler's promise is pending
    twin,        \* the call `last`, as made on the ReceiverWithContext run beside the Receiver
    tables,      \* several Receivers: the Map each one constructed
    handed,      \* several Receivers: the Routers handed out, each with the Map it refers to
    target,      \* several Receivers: the Receiver (or the Router's Receiver) `last` was called on
    listener,    \* example/port.ts: the one-element array `listener`
    port,        \* example/port.ts: the sendMessage calls in flight, oldest first
    done,        \* example/port.ts: the sendMessage call that returned last
    pc,          \* example: the next statement of the script that wires the example
    listened     \* example/port.ts: the listeners addListener was called with so far

\* The variables of the machines further down, which the calls on one
\* Receiver, Sender or ReceiverWithContext leave alone.
multiVars == <<tables, handed, target>>

portVars == <<listener, port, done, pc, listened>>

moreVars == <<twin, multiVars, portVars>>

vars == <<routes, routers, adapter, last, ctxRoutes, ctxRouters, calls, moreVars>>

-----------------------------------------------------------------------------
(* Bounds of the model *)

MaxRouters == 2
MaxCalls == 2

-----------------------------------------------------------------------------
(* Values *)

Undefined == [tag |-> "undefined"]

Value(v) == [tag |-> "value", v |-> v]

\* The array an argument list is when it is not destructured.
ArrayOf(items) == [tag |-> "array", items |-> items]

\* The keys of the schema, and a key outside of it (receive takes key: unknown).
Keys == {"math.add", "monitring.ping"}

UnknownKey == "unknown.key"

AllKeys == Keys \cup {UnknownKey}

Payloads == {Undefined, Value("x"), Value("y")}

\* The argument lists send accepts after the key: [undefined?] or [Request].
ArgLists == {<<>>} \cup {<<x>> : x \in Payloads}

Contexts == {"ctx1", "ctx2"}

\* The values of the example: numbers, the request { a, b } of "math.add", null.
Num(n) == [tag |-> "number", n |-> n]

Pair(a, b) == [tag |-> "object", a |-> a, b |-> b]

Null == [tag |-> "null"]

\* A promise, named by how it settles.
Promise(state, value) == [tag |-> "promise", state |-> state, value |-> value]

\* How a call ends: it returns a value or throws one.
Return(value) == [type |-> "return", value |-> value]

Throw(value) == [type |-> "throw", value |-> value]

\* What a caller that awaits the call observes.
Await(completion) ==
    IF completion.type = "throw"
    THEN [state |-> "thrown", value |-> completion.value]
    ELSE IF completion.value.tag = "promise"
         THEN [state |-> completion.value.state, value |-> completion.value.value]
         ELSE [state |-> "fulfilled", value |-> completion.value]

-----------------------------------------------------------------------------
(* Handlers: (args) => Promise<Response> | undefined *)

\* One handler of each kind a Handler can be: its promise fulfils, its promise
\* rejects, it returns undefined, it throws.
Handlers == {"hResolve", "hReject", "hNone", "hThrow"}

Response(fn, ctx, arg) == [tag |-> "response", fn |-> fn, ctx |-> ctx, arg |-> arg]

Failure(fn, ctx, arg) == [tag |-> "error", fn |-> fn, ctx |-> ctx, arg |-> arg]

\* handler(ctx, args); the handlers of Receiver have no context parameter.
NoContext == "none"

ApplyWithContext(handler, ctx, args) ==
    CASE handler = "hResolve" -> Return(Promise("fulfilled", Response(handler, ctx, args)))
      [] handler = "hReject"  -> Return(Promise("rejected", Failure(handler, ctx, args)))
      [] handler = "hNone"    -> Return(Undefined)
      [] handler = "hThrow"   -> Throw(Failure(handler, ctx, args))
      \* the handlers of the example: ({ a, b }) => Promise.resolve(a + b), which
      \* cannot destructure undefined or null, and () => Promise.resolve()
      [] handler = "hAdd"     ->
            IF args.tag = "object"
            THEN Return(Promise("fulfilled", Num(args.a + args.b)))
            ELSE IF args.tag \in {"undefined", "null"}
                 THEN Throw(Failure(handler, ctx, args))
                 ELSE Return(Promise("fulfilled", [tag |-> "NaN"]))
      [] handler = "hVoid"    -> Return(Promise("fulfilled", Undefined))

Apply(handler, args) == ApplyWithContext(handler, NoContext, args)

\* The record of one handler invocation.
Invocation(handler, ctx, args, result) ==
    [fn |-> handler, ctx |-> ctx, arg |-> args, result |-> result]

-----------------------------------------------------------------------------
(* src/receiver.ts *)

\* Map.has
Has(rts, key) == key \in DOMAIN rts

\* Map.set: adds the entry, or replaces the value of an existing key.
MapSet(rts, key, handler) ==
    [k \in DOMAIN rts \cup {key} |-> IF k = key THEN handler ELSE rts[k]]

RouteConflict(key) == [tag |-> "error", msg |-> "The route is already exists", key |-> key]

\* Receiver.route without the has() check.
RouteUnchecked(rts, key) ==
    [completion |-> Return([tag |-> "router", key |-> key]), routes |-> rts]

\* Receiver.route that enters the key in the table itself.
RouteRegistering(rts, key) ==
    IF Has(rts, key)
    THEN [completion |-> Throw(RouteConflict(key)), routes |-> rts]
    ELSE [completion |-> Return([tag |-> "router", key |-> key]),
          routes |-> MapSet(rts, key, "hNone")]

\* Receiver.route that deletes the entry of the key it finds registered.
RouteDroppingOnConflict(rts, key) ==
    IF Has(rts, key)
    THEN [completion |-> Throw(RouteConflict(key)),
          routes |-> [k \in DOMAIN rts \ {key} |-> rts[k]]]
    ELSE [completion |-> Return([tag |-> "router", key |-> key]), routes |-> rts]

\* Receiver.route(key): throws when the key has a handler, else returns a new
\* Router on (key, this.routes); the table is not touched.
ReceiverRoute(rts, key) ==
    IF Has(rts, key)
    THEN [completion |-> Throw(RouteConflict(key)), routes |-> rts]
    ELSE [completion |-> Return([tag |-> "router", key |-> key]), routes |-> rts]

\* Router.to that starts the table afresh with its own entry.
ToResettingTable(rts, key, handler) == [k \in {key} |-> handler]

\* Router.to(handler): this.routes.set(this.key, handler)
RouterTo(rts, key, handler) == MapSet(rts, key, handler)

\* Receiver.receive that throws for a key without a handler.
ReceiveRejectingUnroutable(rts, key, args) ==
    IF ~Has(rts, key)
    THEN [completion |-> Throw(Failure("receive", NoContext, key)), invoked |-> <<>>]
    ELSE LET result == Apply(rts[key], args)
         IN  [completion |-> result,
              invoked |-> <<Invocation(rts[key], NoContext, args, result)>>]

\* Receiver.receive that calls the handler and forgets to return its result.
ReceiveDroppingResult(rts, key, args) ==
    IF ~Has(rts, key)
    THEN [completion |-> Return(Undefined), invoked |-> <<>>]
    ELSE LET result == Apply(rts[key], args)
         IN  [completion |-> Return(Undefined),
              invoked |-> <<Invocation(rts[key], NoContext, args, result)>>]

\* Receiver.receive that catches what the handler throws and returns undefined.
ReceiveSwallowingFailure(rts, key, args) ==
    IF ~Has(rts, key)
    THEN [completion |-> Return(Undefined), invoked |-> <<>>]
    ELSE LET result == Apply(rts[key], args)
         IN  [completion |-> IF result.type = "throw" THEN Return(Undefined) ELSE result,
              invoked |-> <<Invocation(rts[key], NoContext, args, result)>>]

\* Receiver.receive(key, args)
ReceiverReceive(rts, key, args) ==
    IF ~Has(rts, key)
    THEN [completion |-> Return(Undefined), invoked |-> <<>>]
    ELSE LET result == Apply(rts[key], args)
         IN  [completion |-> result,
              invoked |-> <<Invocation(rts[key], NoContext, args, result)>>]

-----------------------------------------------------------------------------
(* src/receiverWithContext.ts *)

\* ReceiverWithContext.route(key)
ReceiverWithContextRoute(rts, key) ==
    IF Has(rts, key)
    THEN [completion |-> Throw(RouteConflict(key)), routes |-> rts]
    ELSE [completion |-> Return([tag |-> "router", key |-> key]), routes |-> rts]

\* RouterWithContext.to(handler): this.routes.set(this.key, handler)
RouterWithContextTo(rts, key, handler) == MapSet(rts, key, handler)

\* ReceiverWithContext.receive that hands the handler a context kept by the
\* receiver instead of the one of the call.
ReceiveWithStoredContext(rts, ctx, key, args) ==
    IF ~Has(rts, key)
    THEN [completion |-> Return(Undefined), invoked |-> <<>>]
    ELSE LET stored == CHOOSE c \in Contexts : TRUE
             result == ApplyWithContext(rts[key], stored, args)
         IN  [completion |-> result,
              invoked |-> <<Invocation(rts[key], stored, args, result)>>]

\* ReceiverWithContext.receive(ctx, key, args)
ReceiverWithContextReceive(rts, ctx, key, args) ==
    IF ~Has(rts, key)
    THEN [completion |-> Return(Undefined), invoked |-> <<>>]
    ELSE LET result == ApplyWithContext(rts[key], ctx, args)
         IN  [completion |-> result,
              invoked |-> <<Invocation(rts[key], ctx, args, result)>>]

-----------------------------------------------------------------------------
(* src/sender.ts *)

\* The adapters a Sender is constructed with: one that calls receiver.receive
\* directly, one that answers over a transport of its own, one whose promise
\* rejects, one that throws.
Adapters == {"direct", "remote", "rejects", "throws"}

\* The adapter called with (key, args).
AdapterCall(adp, rts, key, args) ==
    CASE adp = "direct"  -> ReceiverReceive(rts, key, args)
      [] adp = "remote"  ->
            [completion |-> Return(Promise("fulfilled", Response(adp, key, args))),
             invoked |-> <<>>]
      [] adp = "rejects" ->
            [completion |-> Return(Promise("rejected", Failure(adp, key, args))),
             invoked |-> <<>>]
      [] adp = "throws"  ->
            [completion |-> Throw(Failure(adp, key, args)), invoked |-> <<>>]
      \* the adapter of the example, (key, args) => sendMessage({ key, args }):
      \* an async function, whose promise is pending when it returns
      [] adp = "port"    ->
            [completion |-> Return(Promise("pending", Undefined)), invoked |-> <<>>]

\* send(key, ...args): the rest parameter passed on as the array it is.
SendArgsAsArray(rest) == ArrayOf(rest)

\* send(key, ...[args]): the first element of the rest parameter, undefined
\* when the list is empty.
SendArgs(rest) == IF Len(rest) = 0 THEN Undefined ELSE rest[1]

\* Sender.send that calls the adapter again when the first call fails.
SendRetrying(adp, rts, key, rest) ==
    LET args == SendArgs(rest)
        r == AdapterCall(adp, rts, key, args)
        one == [key |-> key, args |-> args, result |-> r.completion]
    IN  IF Await(r.completion).state = "fulfilled"
        THEN [completion |-> r.completion, adapterCalls |-> <<one>>, invoked |-> r.invoked]
        ELSE [completion |-> r.completion, adapterCalls |-> <<one, one>>,
              invoked |-> r.invoked \o r.invoked]

\* Sender.send that calls the adapter and does not return what it produced.
SendWithoutReturn(adp, rts, key, rest) ==
    LET args == SendArgs(rest)
        r == AdapterCall(adp, rts, key, args)
    IN  [completion |-> Return(Undefined),
         adapterCalls |-> <<[key |-> key, args |-> args, result |-> r.completion]>>,
         invoked |-> r.invoked]

\* Sender.send(key, ...[args]): return this.sender(key, args)
SenderSend(adp, rts, key, rest) ==
    LET args == SendArgs(rest)
        r == AdapterCall(adp, rts, key, args)
    IN  [completion |-> r.completion,
         adapterCalls |-> <<[key |-> key, args |-> args, result |-> r.completion]>>,
         invoked |-> r.invoked]

-----------------------------------------------------------------------------
(* The state machine of one Receiver and one Sender *)

Call(op, ctx, key, rest, completion, invoked, adapterCalls) ==
    [op |-> op, ctx |-> ctx, key |-> key, rest |-> rest, completion |-> completion,
     invoked |-> invoked, adapterCalls |-> adapterCalls]

NoMap == [k \in {} |-> "hNone"]

\* const listener: [MessageListener] = [() => {}]
InitialListener == "noop"

\* No sendMessage call has returned yet.
NoDelivery == [pc |-> "none"]

\* Receiver instances constructed side by side.
Receivers == {"receiverA", "receiverB"}

\* new Receiver(), new ReceiverWithContext(): the tables are empty, no router
\* is handed out, no call is in flight.
InitReceivers ==
    /\ routes = NoMap
    /\ routers = <<>>
    /\ last = Call("new", NoContext, UnknownKey, <<>>, Return(Undefined), <<>>, <<>>)
    /\ ctxRoutes = NoMap
    /\ ctxRouters = {}
    /\ calls = EmptyBag
    /\ twin = last
    /\ tables = [r \in Receivers |-> NoMap]
    /\ handed = {}
    /\ target = CHOOSE r \in Receivers : TRUE
    /\ listener = <<InitialListener>>
    /\ port = <<>>
    /\ done = NoDelivery
    /\ pc = 1
    /\ listened = {}

\* new Sender(adapter), with any adapter.
Init ==
    /\ InitReceivers
    /\ adapter \in Adapters

ctxVars == <<ctxRoutes, ctxRouters, calls>>

\* receiver.route(key)
Route(key) ==
    LET r == ReceiverRoute(routes, key)
    IN  /\ r.completion.type = "return" => Len(routers) < MaxRouters
        /\ routes' = r.routes
        /\ routers' = IF r.completion.type = "return"
                      THEN Append(routers, [key |-> key, used |-> FALSE])
                      ELSE routers
        /\ last' = Call("route", NoContext, key, <<>>, r.completion, <<>>, <<>>)
        /\ UNCHANGED <<adapter, ctxVars, moreVars>>

\* routers[i].to(handler)
To(i, handler) ==
    /\ i \in DOMAIN routers
    /\ routes' = RouterTo(routes, routers[i].key, handler)
    /\ routers' = [routers EXCEPT ![i].used = TRUE]
    /\ last' = Call("to", NoContext, routers[i].key, <<>>, Return(Undefined), <<>>, <<>>)
    /\ UNCHANGED <<adapter, ctxVars, moreVars>>

\* receiver.receive(key, args)
Receive(key, args) ==
    LET r == ReceiverReceive(routes, key, args)
    IN  /\ last' = Call("receive", NoContext, key, <<args>>, r.completion, r.invoked, <<>>)
        /\ UNCHANGED <<routes, routers, adapter, ctxVars, moreVars>>

\* sender.send(key, ...rest)
Send(key, rest) ==
    LET r == SenderSend(adapter, routes, key, rest)
    IN  /\ last' = Call("send", NoContext, key, rest, r.completion, r.invoked, r.adapterCalls)
        /\ UNCHANGED <<routes, routers, adapter, ctxVars, moreVars>>

Next ==
    \/ \E key \in Keys : Route(key)
    \/ \E i \in 1..MaxRouters, handler \in Handlers : To(i, handler)
    \/ \E key \in AllKeys, args \in Payloads : Receive(key, args)
    \/ \E key \in Keys, rest \in ArgLists : Send(key, rest)

Spec == Init /\ [][Next]_vars

-----------------------------------------------------------------------------
(* Properties of Receiver and Sender *)

\* The payload of the call `last`: its first argument after the key, undefined
\* when there is none.
Payload(call) == IF call.rest = <<>> THEN Undefined ELSE call.rest[1]

\* C1: a route(k) call made while k has a handler throws RouteConflict, hands
\* out no Router and leaves the routing table as it was: the same keys, the
\* same handler for every key.
C1_RouteConflictKeepsTable ==
    [][\A k \in Keys :
          (Has(routes, k) /\ last'.op = "route" /\ last'.key = k)
          => /\ last'.completion = Throw(RouteConflict(k))
             /\ routes' = routes
             /\ routers' = routers]_vars

C1_Witness ==
    /\ last.op = "route"
    /\ last.completion.type = "throw"
    /\ Has(routes, last.key)
    /\ \E i \in DOMAIN routers : routers[i].key = last.key /\ routers[i].used

\* C2: once key k has handler h in the routing table, no call replaces or
\* removes that entry: the table keeps (k, h) in every later state.
C2_RegisteredIsTerminal ==
    [][\A k \in DOMAIN routes : Has(routes', k) /\ routes'[k] = routes[k]]_vars

\* C3: receive(k, payload) for a key without an entry in the routing table
\* returns undefined, invokes no handler and throws nothing.
C3_UnroutableIsAbsent ==
    (last.op = "receive" /\ ~Has(routes, last.key))
    => /\ last.completion = Return(Undefined)
       /\ last.invoked = <<>>

C3_Witness ==
    /\ last.op = "receive"
    /\ ~Has(routes, last.key)
    /\ routes # NoMap

\* C4: receive(k, payload) for a registered key makes one handler invocation,
\* of the handler registered for k, with that payload, and completes with
\* that invocation's result.
C4_DispatchOnce ==
    (last.op = "receive" /\ Has(routes, last.key))
    => last.invoked =
         <<Invocation(routes[last.key], NoContext, last.rest[1], last.completion)>>

C4_Witness ==
    /\ last.op = "receive"
    /\ Has(routes, last.key)
    /\ \E k \in DOMAIN routes : k # last.key /\ routes[k] # routes[last.key]
    /\ last.rest[1] # Undefined
    /\ last.completion.value.tag = "promise"

\* C5: a send(key, payload) call makes one adapter call, with that key and
\* that payload, and completes as the adapter call did; no other call on the
\* Sender or the Receiver calls the adapter.
C5_SendCallsAdapterOnce ==
    /\ last.op = "send"
       => /\ Len(last.adapterCalls) = 1
          /\ last.adapterCalls[1].key = last.key
          /\ last.rest # <<>> => last.adapterCalls[1].args = last.rest[1]
          /\ last.completion = last.adapterCalls[1].result
    /\ last.op # "send" => last.adapterCalls = <<>>

C5_Witness ==
    /\ last.op = "send"
    /\ last.rest # <<>>
    /\ last.rest[1] # Undefined
    /\ Await(last.completion).state # "fulfilled"

\* C6: send(k) without a payload argument calls the adapter with (k, undefined).
C6_NoPayloadIsUndefined ==
    (last.op = "send" /\ last.rest = <<>>)
    => /\ last.adapterCalls # <<>>
       /\ last.adapterCalls[1].key = last.key
       /\ last.adapterCalls[1].args = Undefined

C6_Witness ==
    /\ last.op = "send"
    /\ last.rest = <<>>
    /\ adapter = "remote"

\* C7: with the adapter that calls receive directly and handler h registered
\* for k, awaiting send(k, x) gives what awaiting h(x) gives.
C7_RoundTrip ==
    (last.op = "send" /\ adapter = "direct" /\ Has(routes, last.key))
    => Await(last.completion) = Await(Apply(routes[last.key], Payload(last)))

C7_Witness ==
    /\ last.op = "send"
    /\ adapter = "direct"
    /\ Has(routes, last.key)
    /\ Payload(last) # Undefined
    /\ Await(last.completion).state = "fulfilled"
    /\ Await(last.completion).value # Undefined

\* C8: a Router handed out by route(k) on which to() was never called leaves
\* k without an entry, so receive(k, payload) returns undefined; and the keys
\* of the table change only in a to() call.
C8_RouteAloneRegistersNothing ==
    /\ [](\A k \in Keys :
            (/\ \E i \in DOMAIN routers : routers[i].key = k
             /\ \A i \in DOMAIN routers : routers[i].key = k => ~routers[i].used)
            => /\ ~Has(routes, k)
               /\ \A x \in Payloads :
                    ReceiverReceive(routes, k, x) =
                      [completion |-> Return(Undefined), invoked |-> <<>>])
    /\ [][DOMAIN routes' # DOMAIN routes => last'.op = "to"]_vars

C8_Witness ==
    /\ last.op = "receive"
    /\ \E i \in DOMAIN routers : routers[i].key = last.key
    /\ \A i \in DOMAIN routers : routers[i].key = last.key => ~routers[i].used
    /\ routes # NoMap

\* Whether the completion is a failure: a throw or a promise that rejects.
IsFailure(completion) == Await(completion).state \in {"thrown", "rejected"}

\* C9: what a handler throws or rejects with is what receive throws or
\* rejects with, after one invocation; what the adapter throws or rejects with
\* is what send throws or rejects with, after one adapter call.
C9_FailurePropagates ==
    /\ (last.op = "receive" /\ Has(routes, last.key)
          /\ routes[last.key] \in {"hThrow", "hReject"})
       => /\ Len(last.invoked) = 1
          /\ IsFailure(last.invoked[1].result)
          /\ last.completion = last.invoked[1].result
          /\ Await(last.completion).value =
               Failure(routes[last.key], NoContext, last.rest[1])
    /\ (last.op = "send" /\ adapter \in {"throws", "rejects"})
       => /\ Len(last.adapterCalls) = 1
          /\ IsFailure(last.adapterCalls[1].result)
          /\ last.completion = last.adapterCalls[1].result
          /\ Await(last.completion).value = Failure(adapter, last.key, Payload(last))
    /\ (last.op = "send" /\ adapter = "direct" /\ Has(routes, last.key)
          /\ routes[last.key] \in {"hThrow", "hReject"})
       => /\ Len(last.invoked) = 1
          /\ last.completion = last.invoked[1].result
          /\ Await(last.completion) =
               [state |-> IF routes[last.key] = "hThrow" THEN "thrown" ELSE "rejected",
                value |-> Failure(routes[last.key], NoContext, Payload(last))]

C9_Witness ==
    /\ last.op = "receive"
    /\ Has(routes, last.key)
    /\ routes[last.key] = "hThrow"
    /\ last.completion.type = "throw"


\* C14: the routing table is empty when the Receiver is constructed, and no
\* call removes a key from it: the keys after a call include the keys before.
C14_KeysOnlyGrow ==
    /\ routes = NoMap
    /\ [][DOMAIN routes \subseteq DOMAIN routes']_vars

C14_Witness ==
    /\ DOMAIN routes = Keys
    /\ last.op = "route"
    /\ last.completion.type = "throw"

\* C15: a receive, route or send call leaves the routing table as it is; a
\* to() call changes at most the entry of its router's key.
C15_OnlyToWritesItsKey ==
    [][/\ last'.op \in {"route", "receive", "send"} => routes' = routes
       /\ last'.op = "to"
          => /\ DOMAIN routes' = DOMAIN routes \cup {last'.key}
             /\ \A k \in DOMAIN routes \ {last'.key} : routes'[k] = routes[k]]_vars

C15_Witness ==
    /\ last.op = "to"
    /\ \E k \in DOMAIN routes : k # last.key /\ routes[k] # routes[last.key]

\* C17 as stated: receive(k, payload) returns undefined exactly when k has no
\* entry in the routing table.
C17_AbsentIffUnroutable ==
    last.op = "receive"
    => (last.completion = Return(Undefined) <=> ~Has(routes, last.key))

\* C17, amended: receive(k, payload) returns undefined exactly when k has no
\* entry in the routing table or the handler of k, invoked, itself returned
\* undefined.
C17_AbsentIffNoResult ==
    last.op = "receive"
    => (last.completion = Return(Undefined)
        <=> \/ ~Has(routes, last.key)
            \/ /\ Len(last.invoked) = 1
               /\ last.invoked[1].fn = routes[last.key]
               /\ last.invoked[1].result = Return(Undefined))

C17_Witness ==
    /\ last.op = "receive"
    /\ Has(routes, last.key)
    /\ last.completion = Return(Undefined)
    /\ Len(last.invoked) = 1

-----------------------------------------------------------------------------
(* The state machine of one ReceiverWithContext, with the promises its         *)
(* handlers return settling in any order                                       *)

CtxPayloads == {Undefined, Value("x")}

baseVars == <<routes, routers, adapter>>

\* receiver.route(key).  A RouterWithContext is immutable (readonly key,
\* readonly routes), so the routers of one key are interchangeable and the set
\* of their keys stands for them.
CtxRoute(key) ==
    LET r == ReceiverWithContextRoute(ctxRoutes, key)
    IN  /\ ctxRoutes' = r.routes
        /\ ctxRouters' = IF r.completion.type = "return"
                         THEN ctxRouters \cup {key}
                         ELSE ctxRouters
        /\ last' = Call("route", NoContext, key, <<>>, r.completion, <<>>, <<>>)
        /\ UNCHANGED <<baseVars, calls, moreVars>>

\* router.to(handler), router a RouterWithContext of `key`
CtxTo(key, handler) ==
    /\ key \in ctxRouters
    /\ ctxRoutes' = RouterWithContextTo(ctxRoutes, key, handler)
    /\ last' = Call("to", NoContext, key, <<>>, Return(Undefined), <<>>, <<>>)
    /\ UNCHANGED <<baseVars, ctxRouters, calls, moreVars>>

IsPromise(completion) ==
    completion.type = "return" /\ completion.value.tag = "promise"

\* receiver.receive(ctx, key, args): when the handler returns a promise, the
\* call stays in flight until the promise settles.
CtxReceive(ctx, key, args) ==
    LET r == ReceiverWithContextReceive(ctxRoutes, ctx, key, args)
    IN  /\ IsPromise(r.completion) => BagCardinality(calls) < MaxCalls
        /\ calls' = IF IsPromise(r.completion)
                    THEN calls (+) SetToBag({[ctx |-> ctx, key |-> key,
                                              invocation |-> r.invoked[1]]})
                    ELSE calls
        /\ last' = Call("receive", ctx, key, <<args>>, r.completion, r.invoked, <<>>)
        /\ UNCHANGED <<baseVars, ctxRoutes, ctxRouters, moreVars>>

\* The promise of the in-flight call `c` settles: the handler's body ends, for
\* the context and the payload it was invoked with.
Settle(c) ==
    /\ BagIn(c, calls)
    /\ calls' = calls (-) SetToBag({c})
    /\ last' = Call("settle", c.ctx, c.key, <<c.invocation.arg>>,
                    ApplyWithContext(c.invocation.fn, c.invocation.ctx, c.invocation.arg),
                    <<>>, <<>>)
    /\ UNCHANGED <<baseVars, ctxRoutes, ctxRouters, moreVars>>

\* The ReceiverWithContext on its own: the Sender plays no part.
InitCtx ==
    /\ InitReceivers
    /\ adapter = "remote"

NextCtx ==
    \/ \E key \in Keys : CtxRoute(key)
    \/ \E key \in Keys, handler \in Handlers : CtxTo(key, handler)
    \/ \E ctx \in Contexts, key \in AllKeys, args \in CtxPayloads : CtxReceive(ctx, key, args)
    \/ \E c \in BagToSet(calls) : Settle(c)

SpecCtx == InitCtx /\ [][NextCtx]_vars

-----------------------------------------------------------------------------
(* Properties of ReceiverWithContext *)

\* C10: the context a handler is invoked with is the context of the
\* receive(ctx, key, payload) call that invoked it, for the calls that end at
\* once and for every call in flight, and what an in-flight call settles to is
\* what the handler makes of that same context.  The routing table holds
\* handlers only; receive and the settling of a promise leave it as it is.
C10_ContextOfTheCall ==
    /\ \A k \in DOMAIN ctxRoutes : ctxRoutes[k] \in Handlers
    /\ last.op = "receive"
       => /\ \A i \in DOMAIN last.invoked : last.invoked[i].ctx = last.ctx
          /\ Has(ctxRoutes, last.key) => Len(last.invoked) = 1
    /\ \A c \in BagToSet(calls) : c.invocation.ctx = c.ctx
    /\ last.op = "settle"
       => Await(last.completion).value.ctx = last.ctx

C10_Witness ==
    /\ last.op = "settle"
    /\ \E c \in BagToSet(calls) : c.key = last.key /\ c.ctx # last.ctx

-----------------------------------------------------------------------------
(* A Receiver and a ReceiverWithContext given the same calls, one after the    *)
(* other                                                                       *)

\* receiver.route(key) on both
PairRoute(key) ==
    LET r == ReceiverRoute(routes, key)
        c == ReceiverWithContextRoute(ctxRoutes, key)
    IN  /\ r.completion.type = "return" => Len(routers) < MaxRouters
        /\ routes' = r.routes
        /\ routers' = IF r.completion.type = "return"
                      THEN Append(routers, [key |-> key, used |-> FALSE])
                      ELSE routers
        /\ ctxRoutes' = c.routes
        /\ ctxRouters' = IF c.completion.type = "return"
                         THEN ctxRouters \cup {key}
                         ELSE ctxRouters
        /\ last' = Call("route", NoContext, key, <<>>, r.completion, <<>>, <<>>)
        /\ twin' = Call("route", NoContext, key, <<>>, c.completion, <<>>, <<>>)
        /\ UNCHANGED <<adapter, calls, multiVars, portVars>>

\* routers[i].to(handler), and to(handler) on the RouterWithContext of the
\* same key, which exists when route(key) returned one.
PairTo(i, handler) ==
    /\ i \in DOMAIN routers
    /\ routes' = RouterTo(routes, routers[i].key, handler)
    /\ routers' = [routers EXCEPT ![i].used = TRUE]
    /\ ctxRoutes' = IF routers[i].key \in ctxRouters
                    THEN RouterWithContextTo(ctxRoutes, routers[i].key, handler)
                    ELSE ctxRoutes
    /\ last' = Call("to", NoContext, routers[i].key, <<>>, Return(Undefined), <<>>, <<>>)
    /\ twin' = Call(IF routers[i].key \in ctxRouters THEN "to" ELSE "no router",
                    NoContext, routers[i].key, <<>>, Return(Undefined), <<>>, <<>>)
    /\ UNCHANGED <<adapter, ctxRouters, calls, multiVars, portVars>>

\* receiver.receive(key, args) and receiver.receive(ctx, key, args)
PairReceive(ctx, key, args) ==
    LET r == ReceiverReceive(routes, key, args)
        c == ReceiverWithContextReceive(ctxRoutes, ctx, key, args)
    IN  /\ last' = Call("receive", NoContext, key, <<args>>, r.completion, r.invoked, <<>>)
        /\ twin' = Call("receive", ctx, key, <<args>>, c.completion, c.invoked, <<>>)
        /\ UNCHANGED <<routes, routers, adapter, ctxVars, multiVars, portVars>>

NextPair ==
    \/ \E key \in Keys : PairRoute(key)
    \/ \E i \in 1..MaxRouters, handler \in Handlers : PairTo(i, handler)
    \/ \E ctx \in Contexts, key \in AllKeys, args \in Payloads : PairReceive(ctx, key, args)

SpecPair == InitCtx /\ [][NextPair]_vars

\* What a handler that ignores its context makes of a value: the context is
\* no part of the result.
WithoutContext(value) ==
    IF value.tag \in {"response", "error"} /\ "ctx" \in DOMAIN value
    THEN [value EXCEPT !.ctx = NoContext]
    ELSE value

IgnoringContext(completion) ==
    IF IsPromise(completion)
    THEN Return(Promise(completion.value.state, WithoutContext(completion.value.value)))
    ELSE [completion EXCEPT !.value = WithoutContext(completion.value)]

\* C11: after the same calls, Receiver and ReceiverWithContext hold the same
\* keys with the same handlers and have handed out routers for the same keys;
\* each route call ends the same way on both (a Router, or the same
\* RouteConflict); each receive call picks the same handler with the same
\* payload on both, or none on both, and ends the same way once the context is
\* left out of the handler's result.
C11_SameRulesWithContext ==
    /\ routes = ctxRoutes
    /\ {routers[i].key : i \in DOMAIN routers} = ctxRouters
    /\ twin.op = last.op /\ twin.key = last.key /\ twin.rest = last.rest
    /\ last.op = "route" => twin.completion = last.completion
    /\ last.op = "receive"
       => /\ Len(twin.invoked) = Len(last.invoked)
          /\ \A i \in DOMAIN last.invoked :
                /\ twin.invoked[i].fn = last.invoked[i].fn
                /\ twin.invoked[i].arg = last.invoked[i].arg
                /\ twin.invoked[i].ctx = twin.ctx
          /\ IgnoringContext(twin.completion) = last.completion

C11_Witness ==
    /\ last.op = "receive"
    /\ twin.ctx \in Contexts
    /\ Has(ctxRoutes, twin.key)
    /\ IsPromise(twin.completion)
    /\ twin.completion # last.completion
    /\ \E i \in DOMAIN routers : ~routers[i].used

-----------------------------------------------------------------------------
(* Several Receiver instances *)

\* One Map for every Receiver, all of them would share.
SharedRoutes(receiver) == CHOOSE r \in Receivers : TRUE

\* this.routes: the Map the instance constructed in its field initialiser,
\* named by the instance.
RoutesOf(receiver) == receiver

singleVars == <<routes, routers, adapter, ctxVars, twin, portVars>>

\* receiver.route(key); the Router is constructed on (key, this.routes).
MultiRoute(receiver, key) ==
    LET r == ReceiverRoute(tables[RoutesOf(receiver)], key)
    IN  /\ tables' = [tables EXCEPT ![RoutesOf(receiver)] = r.routes]
        /\ handed' = IF r.completion.type = "return"
                     THEN handed \cup {[receiver |-> receiver, key |-> key,
                                        routes |-> RoutesOf(receiver), used |-> FALSE]}
                     ELSE handed
        /\ target' = receiver
        /\ last' = Call("route", NoContext, key, <<>>, r.completion, <<>>, <<>>)
        /\ UNCHANGED singleVars

\* router.to(handler), on the Map the router was constructed with.
MultiTo(router, handler) ==
    /\ router \in handed
    /\ tables' = [tables EXCEPT ![router.routes] = RouterTo(@, router.key, handler)]
    /\ handed' = handed \cup {[router EXCEPT !.used = TRUE]}
    /\ target' = router.receiver
    /\ last' = Call("to", NoContext, router.key, <<>>, Return(Undefined), <<>>, <<>>)
    /\ UNCHANGED singleVars

\* receiver.receive(key, args)
MultiReceive(receiver, key, args) ==
    LET r == ReceiverReceive(tables[RoutesOf(receiver)], key, args)
    IN  /\ target' = receiver
        /\ last' = Call("receive", NoContext, key, <<args>>, r.completion, r.invoked, <<>>)
        /\ UNCHANGED <<singleVars, tables, handed>>

NextMulti ==
    \/ \E receiver \in Receivers, key \in Keys : MultiRoute(receiver, key)
    \/ \E router \in handed, handler \in Handlers : MultiTo(router, handler)
    \/ \E receiver \in Receivers, key \in AllKeys, args \in CtxPayloads :
          MultiReceive(receiver, key, args)

SpecMulti == InitCtx /\ [][NextMulti]_vars

\* to() was called on a Router that `receiver` handed out for `key`.
RegisteredOn(receiver, key) ==
    \E router \in handed :
        router.receiver = receiver /\ router.key = key /\ router.used

\* C16: route(k) fails with RouteConflict on a Receiver only when a handler
\* was registered for k on that Receiver itself, and receive(k, payload)
\* invokes a handler only then; a call on one Receiver leaves the tables of
\* the other Receivers as they are.
C16_ReceiversAreIndependent ==
    /\ [](/\ (last.op = "route" /\ last.completion.type = "throw")
             => RegisteredOn(target, last.key)
          /\ (last.op = "receive" /\ last.invoked # <<>>)
             => RegisteredOn(target, last.key)
          /\ \A r \in Receivers : \A k \in Keys :
                Has(tables[r], k) <=> RegisteredOn(r, k))
    /\ [][\A r \in Receivers \ {target'} : tables'[r] = tables[r]]_vars

C16_Witness ==
    /\ last.op = "route"
    /\ last.completion.type = "return"
    /\ \E r \in Receivers \ {target} : RegisteredOn(r, last.key)
    /\ ~RegisteredOn(target, last.key)

-----------------------------------------------------------------------------
(* example/port.ts: the port with random delays, and the example wired on it   *)

\* addListener that adds to the array instead of replacing its element.
AddListenerAppending(cell, l) == Append(cell, l)

\* addListener(l): listener[0] = l
addListener(cell, l) == [cell EXCEPT ![1] = l]

\* sendMessage(message), up to its first await: nothing is called yet.
sendMessage(message, cell) ==
    [message |-> message, pc |-> "delay1", to |-> <<>>, ret |-> Return(Undefined),
     invoked |-> <<>>, sentUnder |-> cell[1]]

\* The listeners: the initial () => {}, the one of the example, which returns
\* receiver.receive(key, args) for the { key, args } of the message, and
\* another one, opaque.
ExtraListeners == {"toReceiver", "other"}

ListenerCall(l, rts, message) ==
    CASE l = "noop"       -> [completion |-> Return(Undefined), invoked |-> <<>>]
      [] l = "toReceiver" -> ReceiverReceive(rts, message.key, message.args)
      [] l = "other"      ->
            [completion |-> Return(Response(l, NoContext, message.args)),
             invoked |-> <<>>]

\* sendMessage that takes the listener when it is called, before the delay.
ListenerAtCall(cell, m) == m.sentUnder

\* listener[0], read after the first delay.
PortListener(cell, m) == cell[1]

\* const ret = listener[0](message); an exception ends the async function.
PortDeliver(cell, rts, m) ==
    LET l == PortListener(cell, m)
        r == ListenerCall(l, rts, m.message)
    IN  [m EXCEPT !.pc = IF r.completion.type = "throw" THEN "thrown" ELSE "delay2",
                  !.to = <<l>>,
                  !.ret = r.completion,
                  !.invoked = r.invoked]

\* sendMessage with `ret` kept in one place for all calls: the call returns
\* what the oldest call in flight holds.
SharedRet(inflight, i) == inflight[1].ret

\* return ret: the local of this call.
PortReturn(inflight, i) == inflight[i].ret

\* How the promise of the async function settles: rejected with what was
\* thrown, else as the returned value does.
AsyncOutcome(ret) ==
    IF ret.type = "throw"
    THEN [state |-> "rejected", value |-> ret.value]
    ELSE Await(ret)

\* The adapter of the example: sendMessage({ key, args })
PortMessage(key, args) == [key |-> key, args |-> args]

\* The statements that wire the example, in order.
ExampleScript ==
    << [stmt |-> "route.to", key |-> "math.add", handler |-> "hAdd"],
       [stmt |-> "route.to", key |-> "counter.increment", handler |-> "hVoid"],
       [stmt |-> "route.to", key |-> "monitring.ping", handler |-> "hVoid"],
       [stmt |-> "addListener", key |-> UnknownKey, handler |-> "toReceiver"],
       [stmt |-> "new Sender", key |-> UnknownKey, handler |-> "port"] >>

Wired == pc = Len(ExampleScript) + 1

\* The calls of the example's main: send("math.add", { a: 1, b: 2 }),
\* send("counter.increment", 10), send("monitring.ping"); and a second sum,
\* to have two sends of one key with different responses.
ExampleSends ==
    { <<"math.add", <<Pair(1, 2)>> >>,
      <<"math.add", <<Pair(2, 2)>> >>,
      <<"counter.increment", <<Num(10)>> >>,
      <<"monitring.ping", <<>> >> }

asideVars == <<ctxVars, twin, multiVars>>

\* The next statement of the script.  An exception (a RouteConflict) ends it.
Wire ==
    /\ pc \in DOMAIN ExampleScript
    /\ LET st == ExampleScript[pc]
           r == ReceiverRoute(routes, st.key)
           thrown == st.stmt = "route.to" /\ r.completion.type = "throw"
       IN  /\ routes' = IF st.stmt = "route.to" /\ ~thrown
                        THEN RouterTo(r.routes, st.key, st.handler)
                        ELSE routes
           /\ routers' = IF st.stmt = "route.to" /\ ~thrown
                         THEN Append(routers, [key |-> st.key, used |-> TRUE])
                         ELSE routers
           /\ listener' = IF st.stmt = "addListener"
                          THEN addListener(listener, st.handler)
                          ELSE listener
           /\ listened' = IF st.stmt = "addListener"
                          THEN listened \cup {st.handler}
                          ELSE listened
           /\ adapter' = IF st.stmt = "new Sender" THEN st.handler ELSE adapter
           /\ pc' = IF thrown THEN 0 ELSE pc + 1
           /\ last' = Call(st.stmt, NoContext, st.key, <<>>,
                           IF thrown THEN r.completion ELSE Return(Undefined), <<>>, <<>>)
    /\ UNCHANGED <<port, done, asideVars>>

\* sender.send(key, ...rest): the adapter starts a sendMessage call.
PortSend(key, rest) ==
    /\ Wired
    /\ Len(port) < MaxCalls
    /\ LET r == SenderSend(adapter, routes, key, rest)
           sent == r.adapterCalls[1]
       IN  /\ port' = Append(port, sendMessage(PortMessage(sent.key, sent.args), listener))
           /\ last' = Call("send", NoContext, key, rest, r.completion, r.invoked,
                           r.adapterCalls)
    /\ UNCHANGED <<routes, routers, adapter, listener, done, pc, listened, asideVars>>

\* The first delay of the i-th call in flight is over: the listener is called.
Deliver(i) ==
    /\ i \in DOMAIN port
    /\ port[i].pc = "delay1"
    /\ port' = [port EXCEPT ![i] = PortDeliver(listener, routes, port[i])]
    /\ UNCHANGED <<routes, routers, adapter, last, listener, done, pc, listened, asideVars>>

\* The second delay of the i-th call in flight is over: the call returns.
Complete(i) ==
    /\ i \in DOMAIN port
    /\ port[i].pc \in {"delay2", "thrown"}
    /\ LET ret == PortReturn(port, i)
       IN  done' = [pc |-> "returned", message |-> port[i].message, to |-> port[i].to,
                    ret |-> ret, invoked |-> port[i].invoked,
                    sentUnder |-> port[i].sentUnder, outcome |-> AsyncOutcome(ret)]
    /\ port' = [j \in 1..(Len(port) - 1) |-> IF j < i THEN port[j] ELSE port[j + 1]]
    /\ UNCHANGED <<routes, routers, adapter, last, listener, pc, listened, asideVars>>

\* receiver.receive(key, args), called on the wired receiver directly.
ExampleReceive(key, args) ==
    /\ Wired
    /\ LET r == ReceiverReceive(routes, key, args)
       IN  last' = Call("receive", NoContext, key, <<args>>, r.completion, r.invoked, <<>>)
    /\ UNCHANGED <<routes, routers, adapter, portVars, asideVars>>

\* addListener(l), called by other code at any time.
AddListener(l) ==
    /\ listener' = addListener(listener, l)
    /\ listened' = listened \cup {l}
    /\ UNCHANGED <<routes, routers, adapter, last, port, done, pc, asideVars>>

\* Before the script runs: no Sender is constructed yet.
InitExample ==
    /\ InitReceivers
    /\ adapter = "none"

NextExample ==
    \/ Wire
    \/ \E s \in ExampleSends : PortSend(s[1], s[2])
    \/ \E i \in 1..MaxCalls : Deliver(i)
    \/ \E i \in 1..MaxCalls : Complete(i)
    \/ ExampleReceive(UnknownKey, Null)

\* The example as it is wired, with its sends in flight in any number.
SpecExample == InitExample /\ [][NextExample]_vars

NextPort ==
    \/ NextExample
    \/ \E l \in ExtraListeners : AddListener(l)

\* The port with addListener called at any time.
SpecPort == InitExample /\ [][NextPort]_vars

-----------------------------------------------------------------------------
(* Properties of the example and of the port *)

Fulfilled(value) == [state |-> "fulfilled", value |-> value]

\* The sendMessage calls whose listener was called: those in flight past the
\* first delay, and the one that returned last.
Delivered ==
    {port[i] : i \in {j \in DOMAIN port : port[j].pc # "delay1"}}
    \cup (IF done.pc = "returned" THEN {[m \in {"message", "to", "ret", "invoked", "sentUnder"} |-> done[m]]} ELSE {})

\* C12: in the wired example, whatever the order in which the delays end,
\* send("math.add", {a: 1, b: 2}) resolves to 3, send("counter.increment", 10)
\* and send("monitring.ping") resolve to undefined, and
\* receive("unknown.key", null) returns undefined without invoking a handler.
C12_ExampleScenario ==
    /\ Wired => DOMAIN routes = {"math.add", "counter.increment", "monitring.ping"}
    /\ done.pc = "returned"
       => /\ done.message = PortMessage("math.add", Pair(1, 2))
             => done.outcome = Fulfilled(Num(3))
          /\ done.message = PortMessage("counter.increment", Num(10))
             => done.outcome = Fulfilled(Undefined)
          /\ done.message = PortMessage("monitring.ping", Undefined)
             => done.outcome = Fulfilled(Undefined)
    /\ (last.op = "receive" /\ last.key = UnknownKey /\ last.rest = <<Null>>)
       => /\ last.completion = Return(Undefined)
          /\ last.invoked = <<>>

C12_Witness ==
    /\ done.pc = "returned"
    /\ done.message = PortMessage("math.add", Pair(1, 2))
    /\ done.outcome = Fulfilled(Num(3))
    /\ last.op = "receive"
    /\ \E i \in DOMAIN port : port[i].message.key = "monitring.ping"

\* C13: a send puts one message in flight, made of its own key and payload;
\* for every message delivered, the handler of its key was invoked once, with
\* its payload; and the send resolves as that invocation's result does,
\* whichever other sends are in flight and in whatever order they end.
C13_OwnResponse ==
    /\ [](/\ \A i \in DOMAIN port : port[i].pc = "delay1" => port[i].invoked = <<>>
          /\ \A m \in Delivered :
                /\ Has(routes, m.message.key)
                /\ m.invoked =
                     <<Invocation(routes[m.message.key], NoContext, m.message.args, m.ret)>>
                /\ m.ret = Apply(routes[m.message.key], m.message.args)
          /\ done.pc = "returned"
             => done.outcome =
                  Await(Apply(routes[done.message.key], done.message.args)))
    /\ [][Len(port') > Len(port)
          => /\ last'.op = "send"
             /\ port' = Append(port, port'[Len(port')])
             /\ port'[Len(port')].message = PortMessage(last'.key, Payload(last'))]_vars

C13_Witness ==
    /\ done.pc = "returned"
    /\ \E i \in DOMAIN port :
          /\ port[i].pc = "delay2"
          /\ port[i].message.key = done.message.key
          /\ Await(port[i].ret) # done.outcome

\* C18: the port holds one listener; when the first delay of a sendMessage
\* call ends, the listener then installed is called, once, and the call
\* resolves as what that listener returned; no message goes to the initial
\* no-op listener, and as long as addListener was called by the example's
\* script only, every message goes to the listener that calls receive.
C18_ListenerAtDelivery ==
    /\ [](/\ Len(listener) = 1
          /\ \A i \in DOMAIN port : port[i].pc = "delay1" => port[i].to = <<>>
          /\ \A m \in Delivered :
                /\ Len(m.to) = 1
                /\ m.to[1] \in listened
                /\ m.to[1] # InitialListener
                /\ listened \subseteq {"toReceiver"} => m.to = <<"toReceiver">>
                /\ m.to = <<"toReceiver">> => Len(m.invoked) = 1
                /\ m.ret = ListenerCall(m.to[1], routes, m.message).completion
          /\ done.pc = "returned" => done.outcome = Await(done.ret))
    /\ [][\A i \in DOMAIN port :
             (port[i].pc = "delay1" /\ Len(port') = Len(port) /\ port'[i].pc # "delay1")
             => port'[i].to = <<listener[1]>>]_vars

C18_Witness ==
    /\ done.pc = "returned"
    /\ done.to # <<done.sentUnder>>
    /\ done.to = <<"toReceiver">>
    /\ done.outcome = Fulfilled(Num(3))

====
